---- MODULE Spec2Model ----
(***************************************************************************)
(* bsondump: the record-framing reader (docbytes.rs, Source::next), the    *)
(* size accounting of raw values (bytes.rs, CountBytes), the structural    *)
(* walker (lib.rs, debug) and the processing loop of the CLI (main.rs).    *)
(*                                                                         *)
(* Byte strings are kept run-length encoded (a sequence of runs            *)
(* [b |-> byte, n |-> count]) so that a record of MAX_BSON_SIZE bytes is   *)
(* an ordinary value.  A u32 is kept as two 16-bit limbs [hi, lo] because  *)
(* the values of a size header cover the whole 32-bit range.               *)
(***************************************************************************)
EXTENDS Integers, Sequences, FiniteSets, TLC

VARIABLES
    input,      \* the bytes behind the reader, run-length encoded
    pos,        \* the reader's position in input
    trace,      \* one entry per poll of Source::next: start, item, end
    faults,     \* device errors (io::Error other than UnexpectedEof) so far
    outputType, \* cli.output_type
    objcheck,   \* cli.objcheck
    num_found,  \* main's counter
    written,    \* start positions of the records whose rendering was written
    logged,     \* the log, in order: "<n> objects found" and error entries
    status,     \* "running", "exit0" (main returned Ok) or "exit1"
    collab,     \* per iteration of main, the collaborator call that failed
    doc,        \* the raw document handed to debug
    report      \* the lines debug produced

vars == <<input, pos, trace, faults, outputType, objcheck, num_found, written,
          logged, status, collab, doc, report>>

sourceVars == <<input, pos, trace, faults>>
mainVars == <<outputType, objcheck, num_found, written, logged, status, collab>>
debugVars == <<doc, report>>

(***************************************************************************)
(* Bounds of the model.                                                    *)
(***************************************************************************)
MaxPieces == 2      \* an input is the concatenation of at most this many pieces
MaxPolls == 3       \* polls of Source::next per run
MaxFaults == 1      \* device errors per run

MAX_BSON_SIZE == 16793600
MIN_BSON_SIZE == 5

(***************************************************************************)
(* Run-length encoded byte strings.                                        *)
(***************************************************************************)
Run(b, n) == [b |-> b, n |-> n]

RECURSIVE RLen(_)
RLen(r) == IF r = <<>> THEN 0 ELSE Head(r).n + RLen(Tail(r))

\* canonical form: no empty run, no two adjacent runs of the same byte
RECURSIVE RNorm(_)
RNorm(r) ==
    IF r = <<>> THEN <<>>
    ELSE IF Head(r).n = 0 THEN RNorm(Tail(r))
    ELSE LET rest == RNorm(Tail(r)) IN
         IF rest # <<>> /\ Head(rest).b = Head(r).b
         THEN <<Run(Head(r).b, Head(r).n + Head(rest).n)>> \o Tail(rest)
         ELSE <<Head(r)>> \o rest

RECURSIVE RTake(_, _)
RTake(r, n) ==
    IF n = 0 \/ r = <<>> THEN <<>>
    ELSE IF Head(r).n >= n THEN <<Run(Head(r).b, n)>>
    ELSE <<Head(r)>> \o RTake(Tail(r), n - Head(r).n)

RECURSIVE RDrop(_, _)
RDrop(r, n) ==
    IF n = 0 \/ r = <<>> THEN r
    ELSE IF Head(r).n > n THEN <<Run(Head(r).b, Head(r).n - n)>> \o Tail(r)
    ELSE RDrop(Tail(r), n - Head(r).n)

\* the byte at 0-based index i
RECURSIVE RByte(_, _)
RByte(r, i) == IF i < Head(r).n THEN Head(r).b ELSE RByte(Tail(r), i - Head(r).n)

RSlice(r, from, n) == RNorm(RTake(RDrop(r, from), n))

RFromBytes(bs) == RNorm([i \in 1..Len(bs) |-> Run(bs[i], 1)])

(***************************************************************************)
(* 32-bit integers.                                                        *)
(***************************************************************************)
\* i32::from_le_bytes: the two's complement value of four little-endian bytes
I32FromLeBytes(bs) ==
    bs[1] + 256 * bs[2] + 65536 * bs[3]
      + 16777216 * (IF bs[4] < 128 THEN bs[4] ELSE bs[4] - 256)

\* `as u32` of an i32: the same 32 bits, as limbs
AsU32(i) == [hi |-> (i \div 65536) % 65536, lo |-> i % 65536]

\* a u32 constant
U32Of(n) == [hi |-> n \div 65536, lo |-> n % 65536]

\* a < b on u32
U32Lt(a, b) == a.hi < b.hi \/ (a.hi = b.hi /\ a.lo < b.lo)

\* `as u8` of a u32: the low 8 bits
AsU8(u) == u.lo % 256

\* `as usize` of a u32 (usize is wider: no change of value)
AsUsize(u) == u.hi * 65536 + u.lo

(***************************************************************************)
(* The reader.                                                             *)
(***************************************************************************)
\* what the device does during one poll: nothing, or an error other than
\* UnexpectedEof in the read of the size prefix ("header") or of the remainder
\* ("body"), after `after` bytes of that read
NoFault == [at |-> "none", after |-> 0]
FaultAfter == {0, 1}
FaultChoices ==
    {NoFault} \cup {[at |-> w, after |-> k] : w \in {"header", "body"}, k \in FaultAfter}

\* Read::read_exact(buf) with buf of n bytes.  A device error strikes after
\* f.after bytes; otherwise too few bytes left is UnexpectedEof and the reader
\* is drained.
ReadExact(in, p, n, f, which) ==
    LET avail == RLen(in) - p IN
    IF f.at = which /\ f.after < n /\ f.after <= avail
    THEN [ok |-> FALSE, err |-> "Other", pos |-> p + f.after, data |-> <<>>]
    ELSE IF avail < n
    THEN [ok |-> FALSE, err |-> "UnexpectedEof", pos |-> p + avail, data |-> <<>>]
    ELSE [ok |-> TRUE, err |-> "", pos |-> p + n, data |-> RSlice(in, p, n)]

(***************************************************************************)
(* Source::next.                                                           *)
(***************************************************************************)
Zero32 == [hi |-> 0, lo |-> 0]
None == [kind |-> "None", size |-> Zero32, small |-> 0, bytes |-> <<>>, err |-> ""]
IOError(e) == [kind |-> "IOError", size |-> Zero32, small |-> 0, bytes |-> <<>>, err |-> e]
TooSmallError(s) ==
    [kind |-> "TooSmallError", size |-> Zero32, small |-> s, bytes |-> <<>>, err |-> ""]
TooLargeError(s) ==
    [kind |-> "TooLargeError", size |-> s, small |-> 0, bytes |-> <<>>, err |-> ""]
BsonBytes(s, bs) == [kind |-> "Ok", size |-> s, bytes |-> bs, small |-> 0, err |-> ""]

\* faulty variant of HeaderError: the end of the input is an error too
HeaderErrorNoEof(e) == IOError(e)

\* the match on read_exact's error for the size prefix
HeaderError(e) == IF e = "UnexpectedEof" THEN None ELSE IOError(e)

\* faulty variant of IsTooSmall: the floor one too low
IsTooSmallOffByOne(size) == U32Lt(size, U32Of(MIN_BSON_SIZE - 1))

IsTooSmall(size) == U32Lt(size, U32Of(MIN_BSON_SIZE))

\* faulty variant of IsTooLarge: >= for >
IsTooLargeInclusive(size) == ~U32Lt(size, U32Of(MAX_BSON_SIZE))

IsTooLarge(size) == U32Lt(U32Of(MAX_BSON_SIZE), size)

TooSmallItem(size) == TooSmallError(AsU8(size))

TooLargeItem(size) == TooLargeError(size)

\* faulty variant of RemainderLen: the prefix not subtracted
RemainderLenWhole(size, size_bytes) == AsUsize(size)

RemainderLen(size, size_bytes) == AsUsize(size) - Len(size_bytes)

\* faulty variant of BodyError: a short remainder taken for the end of the input
BodyErrorAsEof(e) == IF e = "UnexpectedEof" THEN None ELSE IOError(e)

BodyError(e) == IOError(e)

\* raw_data: size_bytes, then remainder
RawData(size_bytes, remainder) == RNorm(RFromBytes(size_bytes) \o remainder)

SizeOf(size_bytes) == AsU32(I32FromLeBytes(size_bytes))

SourceNext(in, p, f) ==
    LET h == ReadExact(in, p, 4, f, "header") IN
    IF ~h.ok THEN [item |-> HeaderError(h.err), pos |-> h.pos]
    ELSE
      LET size_bytes == [i \in 1..4 |-> RByte(h.data, i - 1)]
          size == SizeOf(size_bytes)
      IN
      IF IsTooSmall(size) THEN [item |-> TooSmallItem(size), pos |-> h.pos]
      ELSE IF IsTooLarge(size) THEN [item |-> TooLargeItem(size), pos |-> h.pos]
      ELSE
        LET r == ReadExact(in, h.pos, RemainderLen(size, size_bytes), f, "body") IN
        IF ~r.ok THEN [item |-> BodyError(r.err), pos |-> r.pos]
        ELSE [item |-> BsonBytes(size, RawData(size_bytes, r.data)), pos |-> r.pos]

(***************************************************************************)
(* Inputs: every concatenation of at most MaxPieces pieces.                *)
(***************************************************************************)
Bytes(bs) == [i \in 1..Len(bs) |-> Run(bs[i], 1)]

HeaderPieces ==
    { Bytes(<<0, 0, 0, 0>>),         \* 0
      Bytes(<<4, 0, 0, 0>>),         \* 4
      Bytes(<<5, 0, 0, 0>>),         \* 5
      Bytes(<<0, 64, 0, 1>>),        \* 16,793,600
      Bytes(<<1, 64, 0, 1>>),        \* 16,793,601
      Bytes(<<3, 1, 0, 128>>),       \* sign bit set, low byte 3
      Bytes(<<255, 255, 255, 255>>)  \* -1
    }

PartialPieces == { Bytes(<<5>>) }

BodyPieces == { <<Run(0, 1)>> }

\* whole records: one of 6 bytes, one of MAX_BSON_SIZE bytes
RecordPieces ==
    { Bytes(<<6, 0, 0, 0, 7, 0>>),
      Bytes(<<0, 64, 0, 1>>) \o <<Run(0, MAX_BSON_SIZE - 4)>> }

Pieces == HeaderPieces \cup PartialPieces \cup BodyPieces \cup RecordPieces

RECURSIVE Flatten(_)
Flatten(ps) == IF ps = <<>> THEN <<>> ELSE Head(ps) \o Flatten(Tail(ps))

Inputs == { RNorm(Flatten(ps)) : ps \in UNION { [1..k -> Pieces] : k \in 0..MaxPieces } }

(***************************************************************************)
(* The record source polled by an arbitrary caller.                        *)
(***************************************************************************)
MainIdle ==
    /\ outputType = "Json" /\ objcheck = FALSE /\ num_found = 0
    /\ written = <<>> /\ logged = <<>> /\ status = "running" /\ collab = <<>>

DebugIdle == doc = <<>> /\ report = <<>>

Init ==
    /\ input \in Inputs
    /\ pos = 0
    /\ trace = <<>>
    /\ faults = 0
    /\ MainIdle
    /\ DebugIdle

\* one call of Source::next, the device choosing among F
PollWith(F) ==
    /\ Len(trace) < MaxPolls
    /\ \E f \in F :
         LET r == SourceNext(input, pos, f)
             hit == IF r.item.err = "Other" THEN 1 ELSE 0
         IN
         /\ faults + hit <= MaxFaults
         /\ pos' = r.pos
         /\ trace' = Append(trace, [start |-> pos, item |-> r.item, end |-> r.pos])
         /\ faults' = faults + hit
    /\ UNCHANGED <<input, mainVars, debugVars>>

Poll == PollWith(FaultChoices)

Next == Poll

Spec == Init /\ [][Next]_vars

\* the same caller over a reader that never fails but by running out of bytes
PollReliable == PollWith({NoFault})

NextReliable == PollReliable

SpecReliable == Init /\ [][NextReliable]_vars

(***************************************************************************)
(* Raw values and documents (bson::RawBsonRef, RawDocument, RawArray).     *)
(* A value is [tag, a, b, d]: a and b are the byte lengths of its strings  *)
(* or payload, d the fields of its embedded document, array or scope.  A   *)
(* document is the sequence of its fields [name, v] in the order of its    *)
(* bytes; an array is a document whose names are "0", "1", ...             *)
(***************************************************************************)
Val(tag, a, b, d) == [tag |-> tag, a |-> a, b |-> b, d |-> d]

Field(name, v) == [name |-> name, v |-> v]

\* RawBsonRef::element_type() as u8
ElementType(v) ==
    CASE v.tag = "Double" -> 1
      [] v.tag = "String" -> 2
      [] v.tag = "Document" -> 3
      [] v.tag = "Array" -> 4
      [] v.tag = "Binary" -> 5
      [] v.tag = "Undefined" -> 6
      [] v.tag = "ObjectId" -> 7
      [] v.tag = "Boolean" -> 8
      [] v.tag = "DateTime" -> 9
      [] v.tag = "Null" -> 10
      [] v.tag = "RegularExpression" -> 11
      [] v.tag = "DbPointer" -> 12
      [] v.tag = "JavaScriptCode" -> 13
      [] v.tag = "Symbol" -> 14
      [] v.tag = "JavaScriptCodeWithScope" -> 15
      [] v.tag = "Int32" -> 16
      [] v.tag = "Timestamp" -> 17
      [] v.tag = "Int64" -> 18
      [] v.tag = "Decimal128" -> 19
      [] v.tag = "MaxKey" -> 127
      [] v.tag = "MinKey" -> 255

\* The length of the bytes a value, and a document, occupy in the buffer the
\* view borrows from: a string is an int32 length, its bytes and a NUL; a key
\* and the two parts of a regular expression are its bytes and a NUL; a
\* binary is an int32 length, a subtype byte and the payload; code with scope
\* is an int32 total, the code string and the scope document; a DbPointer is
\* the namespace string and 12 bytes; a document is an int32 length, its
\* elements (type byte, key, value) and a NUL.
RECURSIVE WireLen(_), DocBytesLen(_)
WireLen(v) ==
    CASE v.tag \in {"Double", "Int64", "Timestamp", "DateTime"} -> 8
      [] v.tag \in {"String", "JavaScriptCode", "Symbol"} -> 4 + v.a + 1
      [] v.tag \in {"Document", "Array"} -> DocBytesLen(v.d)
      [] v.tag = "Binary" -> 4 + 1 + v.a
      [] v.tag = "Boolean" -> 1
      [] v.tag \in {"Null", "Undefined", "MinKey", "MaxKey"} -> 0
      [] v.tag = "RegularExpression" -> (v.a + 1) + (v.b + 1)
      [] v.tag = "DbPointer" -> (4 + v.a + 1) + 12
      [] v.tag = "JavaScriptCodeWithScope" -> 4 + (4 + v.a + 1) + DocBytesLen(v.d)
      [] v.tag = "Int32" -> 4
      [] v.tag = "ObjectId" -> 12
      [] v.tag = "Decimal128" -> 16

DocBytesLen(d) ==
    IF d = <<>> THEN 4 + 1
    ELSE (1 + Len(Head(d).name) + 1 + WireLen(Head(d).v)) + DocBytesLen(Tail(d))

(***************************************************************************)
(* CountBytes (bytes.rs).                                                  *)
(***************************************************************************)
\* impl CountBytes for &str, on a string of len bytes
StrCountBytes(len) == 4 + len + 1

\* impl CountBytes for RawDocument and for RawArray: as_bytes().len()
DocCountBytes(d) == DocBytesLen(d)

RegexCountBytes(v) == StrCountBytes(v.a) + StrCountBytes(v.b)

CodeWithScopeCountBytes(v) == StrCountBytes(v.a) + DocCountBytes(v.d)

DbPointerCountBytes(v) == StrCountBytes(0) + 12

\* impl CountBytes for RawBsonRef
CountBytes(v) ==
    CASE v.tag = "Double" -> 8
      [] v.tag = "String" -> StrCountBytes(v.a)
      [] v.tag = "Array" -> DocCountBytes(v.d)
      [] v.tag = "Document" -> DocCountBytes(v.d)
      [] v.tag = "Boolean" -> 1
      [] v.tag = "Null" -> 0
      [] v.tag = "RegularExpression" -> RegexCountBytes(v)
      [] v.tag = "JavaScriptCode" -> StrCountBytes(v.a)
      [] v.tag = "JavaScriptCodeWithScope" -> CodeWithScopeCountBytes(v)
      [] v.tag = "Int32" -> 4
      [] v.tag = "Int64" -> 8
      [] v.tag = "Timestamp" -> 8
      [] v.tag = "Binary" -> 4 + 1 + v.a
      [] v.tag = "ObjectId" -> 12
      [] v.tag = "DateTime" -> 8
      [] v.tag = "Symbol" -> StrCountBytes(v.a)
      [] v.tag = "Decimal128" -> 16
      [] v.tag = "Undefined" -> 0
      [] v.tag = "MaxKey" -> 0
      [] v.tag = "MinKey" -> 0
      [] v.tag = "DbPointer" -> DbPointerCountBytes(v)

(***************************************************************************)
(* The structural walker (lib.rs).  A report is the sequence of its lines; *)
(* a line is its number of leading tabs (get_indent) and what it shows.    *)
(***************************************************************************)
HeaderLine(level) ==
    [indent |-> level, kind |-> "header", name |-> "", type |-> 0, size |-> 0]
SizeLine(level, size) ==
    [indent |-> level, kind |-> "size", name |-> "", type |-> 0, size |-> size]
NameLine(level, name) ==
    [indent |-> level, kind |-> "name", name |-> name, type |-> 0, size |-> 0]
TypeLine(level, type, size) ==
    [indent |-> level, kind |-> "type", name |-> "", type |-> type, size |-> size]

new_object_header(object, indent_level) ==
    <<HeaderLine(indent_level), SizeLine(indent_level + 1, DocCountBytes(object))>>

\* the two lines debug_item writes before it descends
ItemLines(name, bson_ref, indent_level) ==
    LET size_of_type == 1
        size_of_name == Len(name) + 1
        size == size_of_type + size_of_name + CountBytes(bson_ref)
    IN <<NameLine(indent_level + 2, name),
         TypeLine(indent_level + 3, ElementType(bson_ref), size)>>

\* faulty variant of VisitOrder: last element first
VisitOrderReversed(n) == [k \in 1..n |-> n + 1 - k]

\* the order in which the loops of debug_document and debug_array visit the
\* n elements: the iterator's, which is the order of the bytes
VisitOrder(n) == [k \in 1..n |-> k]

\* debug_item's lines and the report of the embedded object, put together
ItemThenEmbedded(lines, embedded) == lines \o embedded

RECURSIVE debug_document(_, _), debug_array(_, _), debug_item(_, _, _),
          DocumentLoop(_, _, _), ArrayLoop(_, _, _)

debug_item(name, bson_ref, indent_level) ==
    ItemThenEmbedded(
        ItemLines(name, bson_ref, indent_level),
        CASE bson_ref.tag = "Document" -> debug_document(bson_ref.d, indent_level + 3)
          [] bson_ref.tag = "Array" -> debug_array(bson_ref.d, indent_level + 3)
          [] OTHER -> <<>>)

\* iterations k.. of `for element in raw_document`
DocumentLoop(raw_document, k, indent_level) ==
    IF k > Len(raw_document) THEN <<>>
    ELSE LET element == raw_document[VisitOrder(Len(raw_document))[k]] IN
         debug_item(element.name, element.v, indent_level)
           \o DocumentLoop(raw_document, k + 1, indent_level)

\* iterations k.. of `for (i, element) in array.into_iter().enumerate()`
ArrayLoop(array, k, indent_level) ==
    IF k > Len(array) THEN <<>>
    ELSE LET i == k - 1
             element == array[VisitOrder(Len(array))[k]]
         IN debug_item(ToString(i), element.v, indent_level)
              \o ArrayLoop(array, k + 1, indent_level)

debug_document(raw_document, indent_level) ==
    new_object_header(raw_document, indent_level)
      \o DocumentLoop(raw_document, 1, indent_level)

debug_array(array, indent_level) ==
    new_object_header(array, indent_level) \o ArrayLoop(array, 1, indent_level)

debug(raw_doc) == debug_document(raw_doc, 0)

(***************************************************************************)
(* Documents handed to debug: at most MaxFields fields out of a menu.      *)
(***************************************************************************)
MaxFields == 2

Scalars ==
    { Val("Double", 0, 0, <<>>), Val("String", 0, 0, <<>>), Val("String", 3, 0, <<>>),
      Val("Boolean", 0, 0, <<>>), Val("Null", 0, 0, <<>>),
      Val("RegularExpression", 1, 1, <<>>), Val("JavaScriptCode", 2, 0, <<>>),
      Val("JavaScriptCodeWithScope", 2, 0, <<>>),
      Val("Int32", 0, 0, <<>>), Val("Int64", 0, 0, <<>>), Val("Timestamp", 0, 0, <<>>),
      Val("Binary", 0, 0, <<>>), Val("Binary", 2, 0, <<>>), Val("ObjectId", 0, 0, <<>>),
      Val("DateTime", 0, 0, <<>>), Val("Symbol", 1, 0, <<>>),
      Val("Decimal128", 0, 0, <<>>), Val("Undefined", 0, 0, <<>>),
      Val("MaxKey", 0, 0, <<>>), Val("MinKey", 0, 0, <<>>),
      Val("DbPointer", 0, 0, <<>>), Val("DbPointer", 2, 0, <<>>) }

Int32Val == Val("Int32", 0, 0, <<>>)
StrVal == Val("String", 3, 0, <<>>)

ArrayOf(vs) == Val("Array", 0, 0, [i \in 1..Len(vs) |-> Field(ToString(i - 1), vs[i])])
DocOf(fs) == Val("Document", 0, 0, fs)

Embedded ==
    { DocOf(<<>>),
      DocOf(<<Field("x", Int32Val), Field("yy", StrVal)>>),
      DocOf(<<Field("yy", StrVal), Field("x", Int32Val)>>),
      DocOf(<<Field("in", DocOf(<<Field("z", Int32Val)>>)), Field("x", StrVal)>>),
      DocOf(<<Field("arr", ArrayOf(<<StrVal, Int32Val>>)), Field("x", Int32Val)>>),
      ArrayOf(<<>>),
      ArrayOf(<<Int32Val, StrVal>>),
      ArrayOf(<<DocOf(<<Field("z", Int32Val)>>), StrVal>>),
      ArrayOf(<<ArrayOf(<<Int32Val>>), Int32Val>>) }

FieldMenu ==
    { Field("a", v) : v \in Scalars } \cup { Field("bc", v) : v \in Embedded }

Docs == UNION { [1..k -> FieldMenu] : k \in 0..MaxFields }

SourceIdle == input = <<>> /\ pos = 0 /\ trace = <<>> /\ faults = 0

InitDebug ==
    /\ doc \in Docs
    /\ report = <<>>
    /\ SourceIdle
    /\ MainIdle

\* bsondump::debug(&raw_doc)
Debug ==
    /\ report = <<>>
    /\ report' = debug(doc)
    /\ UNCHANGED <<doc, sourceVars, mainVars>>

NextDebug == Debug

SpecDebug == InitDebug /\ [][NextDebug]_vars

(***************************************************************************)
(* The processing loop of the CLI (main.rs).  The collaborators (the bson  *)
(* decoder, the JSON renderer, the writer) may fail; `fail` names the one  *)
(* call of an iteration that does, "none" if none does.  `written` holds   *)
(* what was handed to the writer.                                          *)
(***************************************************************************)
OutputTypes == {"Debug", "Json", "PrettyJson"}

\* the calls of one iteration that can return Err, by output type
FailPoints(output_type) ==
    CASE output_type = "Json" -> {"none", "from_bytes", "to_canonical_extjson_value", "writeln"}
      [] output_type = "PrettyJson" ->
           {"none", "from_bytes", "to_canonical_extjson_value", "to_pretty_string",
            "writeln", "flush"}
      [] output_type = "Debug" -> {"none", "from_bytes", "debug", "writeln", "flush"}

\* Which failure an iteration can meet on the item of its poll.  Without a
\* record no collaborator is called.  RawDocumentBuf::from_bytes is handed
\* bytes whose length is their size prefix and fails exactly when the last
\* byte is not NUL; the walk over the elements (the conversion, debug) cannot
\* fail on the empty document; the writer can fail at any time.
CanFail(item, fail) ==
    IF item.kind # "Ok" THEN fail = "none"
    ELSE /\ fail = "from_bytes" <=> item.bytes[Len(item.bytes)].b # 0
         /\ fail \in {"to_canonical_extjson_value", "debug"} => RLen(item.bytes) > 5

Info(n) == [level |-> "info", found |-> n, message |-> "objects found"]
ErrorEntry(message) == [level |-> "error", found |-> 0, message |-> message]

\* the state main works on
MainState == [num_found |-> num_found, written |-> written, logged |-> logged,
              status |-> status]

print_error_and_exit(m, n, message) ==
    [m EXCEPT !.logged = m.logged \o <<Info(n), ErrorEntry(message)>>,
              !.status = "exit1"]

\* faulty variant of OnConversionError: exit_on_error ignored
OnConversionErrorExit(m, n, message, exit_on_error) == print_error_and_exit(m, n, message)

\* what print_json does when the conversion or the pretty printer fails
OnConversionError(m, n, message, exit_on_error) ==
    IF exit_on_error THEN print_error_and_exit(m, n, message) ELSE m

print_json(m, rec, n, pretty, exit_on_error, fail) ==
    IF fail = "to_canonical_extjson_value"
    THEN OnConversionError(m, n, fail, exit_on_error)
    ELSE IF ~pretty
    THEN IF fail = "writeln" THEN print_error_and_exit(m, n, fail)
         ELSE [m EXCEPT !.written = Append(@, rec)]
    ELSE IF fail = "to_pretty_string"
    THEN OnConversionError(m, n, fail, exit_on_error)
    ELSE IF fail = "writeln" THEN print_error_and_exit(m, n, fail)
    ELSE IF fail = "flush"
    THEN print_error_and_exit([m EXCEPT !.written = Append(@, rec)], n, fail)
    ELSE [m EXCEPT !.written = Append(@, rec)]

\* the OutputType::Debug arm
PrintDebug(m, rec, n, fail) ==
    IF fail \in {"debug", "writeln"} THEN print_error_and_exit(m, n, fail)
    ELSE IF fail = "flush"
    THEN print_error_and_exit([m EXCEPT !.written = Append(@, rec)], n, fail)
    ELSE [m EXCEPT !.written = Append(@, rec)]

\* num_found += 1, reached unless the process has exited
CountFound(m) ==
    IF m.status = "running" THEN [m EXCEPT !.num_found = @ + 1] ELSE m

\* the body of `for result in source(&mut reader)` on the item of a poll that
\* started at `start`, and the end of the loop on None
MainBody(m, item, start, output_type, exit_on_error, fail) ==
    IF item.kind = "None"
    THEN [m EXCEPT !.logged = Append(@, Info(m.num_found)), !.status = "exit0"]
    ELSE IF item.kind # "Ok" THEN print_error_and_exit(m, m.num_found, item.kind)
    ELSE IF fail = "from_bytes" THEN print_error_and_exit(m, m.num_found, fail)
    ELSE CountFound(
           CASE output_type = "Json" ->
                  print_json(m, start, m.num_found, FALSE, exit_on_error, fail)
             [] output_type = "PrettyJson" ->
                  print_json(m, start, m.num_found, TRUE, exit_on_error, fail)
             [] output_type = "Debug" -> PrintDebug(m, start, m.num_found, fail))

InitMain ==
    /\ input \in Inputs
    /\ pos = 0 /\ trace = <<>> /\ faults = 0
    /\ outputType \in OutputTypes
    /\ objcheck \in BOOLEAN
    /\ num_found = 0 /\ written = <<>> /\ logged = <<>> /\ status = "running"
    /\ collab = <<>>
    /\ DebugIdle

\* one iteration of main's loop: the poll and what main does with its item
MainStep ==
    /\ status = "running"
    /\ \E f \in FaultChoices, fail \in FailPoints(outputType) :
         LET r == SourceNext(input, pos, f)
             hit == IF r.item.err = "Other" THEN 1 ELSE 0
             m == MainBody(MainState, r.item, pos, outputType, objcheck, fail)
         IN
         /\ faults + hit <= MaxFaults
         /\ CanFail(r.item, fail)
         /\ pos' = r.pos
         /\ trace' = Append(trace, [start |-> pos, item |-> r.item, end |-> r.pos])
         /\ faults' = faults + hit
         /\ collab' = Append(collab, fail)
         /\ num_found' = m.num_found
         /\ written' = m.written
         /\ logged' = m.logged
         /\ status' = m.status
    /\ UNCHANGED <<input, outputType, objcheck, debugVars>>

NextMain == MainStep

SpecMain == InitMain /\ [][NextMain]_vars

(***************************************************************************)
(* Statements about Source::next.  They read the input directly: the       *)
(* declared size of the header at a position is taken from its four bytes, *)
(* most significant first, without the signed detour of the code.          *)
(***************************************************************************)
Entries == { trace[i] : i \in 1..Len(trace) }

\* bytes left in the input when the poll started
Left(e) == RLen(input) - e.start

\* the unsigned value of the 4 bytes at p, as limbs
Declared(in, p) ==
    LET t == RDrop(in, p) IN
    [hi |-> RByte(t, 3) * 256 + RByte(t, 2), lo |-> RByte(t, 1) * 256 + RByte(t, 0)]

MaxLimbs == [hi |-> MAX_BSON_SIZE \div 65536, lo |-> MAX_BSON_SIZE % 65536]

AboveMax(u) == u.hi > MaxLimbs.hi \/ (u.hi = MaxLimbs.hi /\ u.lo > MaxLimbs.lo)

BelowMin(u) == u.hi = 0 /\ u.lo < MIN_BSON_SIZE

InBounds(u) == ~AboveMax(u) /\ ~BelowMin(u)

\* the value of an in-bounds size
Value(u) == u.hi * 65536 + u.lo

IsError(item) == item.kind \in {"IOError", "TooSmallError", "TooLargeError"}

DeviceFailed(e) == e.item.err = "Other"

\* C1: once a poll has yielded an error (I/O, too-small or too-large), no
\* later poll of the same Source yields a successful record.
C1_FailStop ==
    \A i \in 1..Len(trace) : \A j \in 1..Len(trace) :
        (i < j /\ IsError(trace[i].item)) => trace[j].item.kind # "Ok"

\* C2: a poll that starts with 1, 2 or 3 bytes left yields an I/O error; only
\* a poll that starts with zero bytes left reports the clean end of stream.
C2_PartialHeaderIsIOError ==
    \A e \in Entries :
        /\ Left(e) \in 1..3 => e.item.kind = "IOError"
        /\ e.item.kind = "None" => Left(e) = 0

\* C3: a header of unsigned value u yields the too-large error carrying
\* exactly u whenever u > 16,793,600 (every header that is negative as a
\* signed integer included) and never when u <= 16,793,600; a record declared
\* at exactly 16,793,600 bytes with a complete body is yielded.
C3_UpperBound ==
    \A e \in Entries :
        /\ e.item.kind = "TooLargeError" => Left(e) >= 4
        /\ (Left(e) >= 4 /\ ~DeviceFailed(e)) =>
             LET u == Declared(input, e.start) IN
             /\ AboveMax(u) => e.item = TooLargeError(u)
             /\ ~AboveMax(u) => e.item.kind # "TooLargeError"
             /\ (u = MaxLimbs /\ Left(e) >= MAX_BSON_SIZE) =>
                  /\ e.item.kind = "Ok"
                  /\ RLen(e.item.bytes) = MAX_BSON_SIZE

C3_Witness ==
    /\ Len(trace) >= 2
    /\ trace[1].item.kind = "Ok" /\ trace[1].item.size = MaxLimbs
    /\ trace[2].item.kind = "TooLargeError"
    /\ trace[2].item.size.hi >= 32768

\* C4: a record yielded successfully is the 4 header bytes followed by exactly
\* declared_size - 4 body bytes: its length and its size field equal the
\* declared size, the poll advances the input by exactly the declared size,
\* and the next poll starts at the first byte after the record.
C4_Framing ==
    \A i \in 1..Len(trace) :
        LET e == trace[i] IN
        e.item.kind = "Ok" =>
            LET u == Declared(input, e.start) IN
            /\ e.item.size = u
            /\ RLen(e.item.bytes) = Value(u)
            /\ e.item.bytes = RSlice(input, e.start, Value(u))
            /\ RSlice(e.item.bytes, 0, 4) = RSlice(input, e.start, 4)
            /\ e.end = e.start + Value(u)
            /\ i < Len(trace) => trace[i + 1].start = e.end

C4_Witness ==
    /\ Len(trace) >= 2
    /\ trace[1].item.kind = "Ok"
    /\ trace[1].end > 4
    /\ trace[2].item.kind = "Ok"
    /\ trace[2].start = trace[1].end

\* the records of the input from p on, and whether it is records and nothing else
RECURSIVE Frames(_, _)
Frames(in, p) ==
    IF p = RLen(in) THEN [ok |-> TRUE, recs |-> <<>>]
    ELSE IF RLen(in) - p < 4 THEN [ok |-> FALSE, recs |-> <<>>]
    ELSE LET u == Declared(in, p) IN
         IF ~InBounds(u) \/ RLen(in) - p < Value(u) THEN [ok |-> FALSE, recs |-> <<>>]
         ELSE LET rest == Frames(in, p + Value(u)) IN
              [ok |-> rest.ok, recs |-> <<RSlice(in, p, Value(u))>> \o rest.recs]

WellFramed(in) == Frames(in, 0).ok

\* C5: on an input that is n >= 0 records with sizes in [5, 16,793,600] and
\* nothing else, the polls yield exactly those records, in order and with
\* their bytes unchanged, then the end of stream, and never an error.
C5_CleanTermination ==
    (WellFramed(input) /\ faults = 0) =>
        LET fs == Frames(input, 0).recs IN
        \A i \in 1..Len(trace) :
            IF i <= Len(fs)
            THEN trace[i].item.kind = "Ok" /\ trace[i].item.bytes = fs[i]
            ELSE trace[i].item = None

C5_Witness ==
    /\ WellFramed(input) /\ faults = 0
    /\ Len(Frames(input, 0).recs) = 2
    /\ Len(trace) = 3
    /\ trace[3].item.kind = "None"

\* C6: a header whose unsigned declared size is less than 5 yields the
\* too-small error, no body byte is read, and the 8-bit size the error
\* carries equals the declared size.
C6_TooSmall ==
    \A e \in Entries :
        (Left(e) >= 4 /\ ~DeviceFailed(e) /\ BelowMin(Declared(input, e.start))) =>
            /\ e.item.kind = "TooSmallError"
            /\ e.item.small = Declared(input, e.start).lo
            /\ e.end = e.start + 4

C6_Witness ==
    \E e \in Entries :
        /\ e.item.kind = "TooSmallError" /\ e.item.small = 4
        /\ Left(e) > 4

\* C7: when the header declares an in-bounds size but fewer than
\* declared_size - 4 bytes follow it, the poll yields an I/O error: neither a
\* shortened record nor a clean end of stream.
C7_TruncatedBody ==
    \A e \in Entries :
        (Left(e) >= 4 /\ InBounds(Declared(input, e.start))
            /\ Left(e) - 4 < Value(Declared(input, e.start)) - 4) =>
            e.item.kind = "IOError"

C7_Witness ==
    \E e \in Entries :
        /\ Left(e) > 4 /\ InBounds(Declared(input, e.start))
        /\ Left(e) < Value(Declared(input, e.start))
        /\ e.item.kind = "IOError" /\ e.item.err = "UnexpectedEof"

(***************************************************************************)
(* Statements about CountBytes and debug.                                  *)
(***************************************************************************)
RECURSIVE SumSeq(_)
SumSeq(s) == IF s = <<>> THEN 0 ELSE Head(s) + SumSeq(Tail(s))

\* the sizes on the type/size lines of the document's own fields
FieldSizes(out) ==
    LET idx == { i \in 1..Len(out) : out[i].kind = "type" /\ out[i].indent = 3 }
        Nth[k \in 0..Cardinality(idx)] ==
            IF k = 0 THEN <<>>
            ELSE LET i == CHOOSE i \in idx :
                              Cardinality({ j \in idx : j < i }) = k - 1
                 IN Append(Nth[k - 1], out[i].size)
    IN Nth[Cardinality(idx)]

\* C8: count_bytes returns the exact byte footprint of every value variant
\* (RegularExpression, JavaScriptCodeWithScope and DbPointer with a non-empty
\* namespace included); so the size in a document's header equals 4 + the sum
\* over its fields of (1 + name length + 1 + count_bytes(value)) + 1.
C8_SizeOracleExact ==
    report # <<>> =>
        /\ \A k \in 1..Len(doc) : CountBytes(doc[k].v) = WireLen(doc[k].v)
        /\ report[2].size = 4 + SumSeq(FieldSizes(report)) + 1

\* number of lines of the report of a document or array
RECURSIVE ReportLen(_)
ReportLen(d) ==
    IF d = <<>> THEN 2
    ELSE 2 + (IF Head(d).v.tag \in {"Document", "Array"} THEN ReportLen(Head(d).v.d) ELSE 0)
           + ReportLen(Tail(d))

\* where the name line of field k of d stands in a report of d that starts at s
NameAt(d, s, k) == s + ReportLen(SubSeq(d, 1, k - 1))

\* The part of out that starts at line s is the report of d at the given
\* level: header, size, then for field k = 1, 2, ... in the order of d its name
\* line, its type line and, if it is a document or array, that object's whole
\* report before the name line of field k + 1.
RECURSIVE Ordered(_, _, _, _, _)
Ordered(out, s, d, level, isArray) ==
    /\ s + ReportLen(d) - 1 <= Len(out)
    /\ out[s].kind = "header" /\ out[s].indent = level
    /\ out[s + 1].kind = "size" /\ out[s + 1].indent = level + 1
    /\ \A k \in 1..Len(d) :
         LET n == NameAt(d, s, k) IN
         /\ out[n].kind = "name" /\ out[n].indent = level + 2
         /\ out[n].name = (IF isArray THEN ToString(k - 1) ELSE d[k].name)
         /\ out[n + 1].kind = "type" /\ out[n + 1].indent = level + 3
         /\ out[n + 1].type = ElementType(d[k].v)
         /\ d[k].v.tag \in {"Document", "Array"} =>
              Ordered(out, n + 2, d[k].v.d, level + 3, d[k].v.tag = "Array")

\* C9: debug emits the object header first, then one name line and one
\* type/size line per field in the order of the document's bytes, and the
\* complete report of a nested document or array right after its field's
\* type/size line and before any line of the next field.
C9_ReportOrder ==
    report # <<>> =>
        /\ Len(report) = ReportLen(doc)
        /\ Ordered(report, 1, doc, 0, FALSE)

C9_Witness ==
    /\ report # <<>>
    /\ Len(doc) = 2
    /\ doc[1].v.tag = "Document" /\ Len(doc[1].v.d) = 2
    /\ doc[1].v.d[1].v.tag = "Array" /\ Len(doc[1].v.d[1].v.d) = 2
    /\ doc[2].v.tag = "Array" /\ Len(doc[2].v.d) = 2
    /\ Len(report) = ReportLen(doc)

(***************************************************************************)
(* Statements about main.                                                  *)
(***************************************************************************)
\* the decoder collaborator: parsing the bytes into a raw document view and
\* converting the view into a typed value
DecoderCalls == {"from_bytes", "to_canonical_extjson_value", "debug"}

\* iteration i met an error of the record source or of the decoder
FailedAt(i) == IsError(trace[i].item) \/ collab[i] \in DecoderCalls

\* records completely and successfully processed in the iterations before i
ProcessedBefore(i) ==
    Cardinality({ j \in 1..(i - 1) : trace[j].item.kind = "Ok" /\ collab[j] = "none" })

\* C10: when the record source or the decoder yields an error, the program
\* reports the number of complete records successfully processed before the
\* failure, reports the error, exits with a non-zero status and writes no
\* output for any record after the failure point; when no error occurs the
\* reported count equals the number of records in the input.
C10_StopAndCount ==
    /\ \A i \in 1..Len(trace) :
         FailedAt(i) =>
            /\ i = Len(trace)
            /\ status = "exit1"
            /\ Len(logged) = 2
            /\ logged[1] = Info(ProcessedBefore(i))
            /\ logged[2].level = "error"
            /\ \A k \in 1..Len(written) : written[k] < trace[i].start
    /\ (status = "exit0" /\ \A i \in 1..Len(trace) :
                               ~IsError(trace[i].item) /\ collab[i] = "none") =>
            /\ logged = <<Info(Cardinality({ i \in 1..Len(trace) : trace[i].item.kind = "Ok" }))>>
            /\ WellFramed(input) => logged = <<Info(Len(Frames(input, 0).recs))>>

\* iteration i met a failure of the conversion to JSON while --objcheck is off
Skipped(i) ==
    ~objcheck /\ collab[i] \in {"to_canonical_extjson_value", "to_pretty_string"}

\* C10, amended: an error of the record source, of from_bytes or of debug, or
\* of the conversion under --objcheck, ends the run: the count reported is the
\* number of records read before it, the error is reported, the status is
\* non-zero and nothing after the failure point is written.  A conversion that
\* fails without --objcheck is skipped: nothing is written or reported for
\* the record, it is counted, and the loop goes on.  Without any error the
\* count is the number of records in the input.
C10_StopAndCountAmended ==
    /\ \A i \in 1..Len(trace) :
         /\ (FailedAt(i) /\ ~Skipped(i)) =>
               /\ i = Len(trace)
               /\ status = "exit1"
               /\ logged = <<Info(i - 1), logged[2]>>
               /\ logged[2].level = "error"
               /\ \A k \in 1..Len(written) : written[k] < trace[i].start
         /\ Skipped(i) =>
               /\ \A k \in 1..Len(written) : written[k] # trace[i].start
               /\ i = Len(trace) => (status = "running" /\ logged = <<>> /\ num_found = i)
    /\ (status = "exit0" /\ \A i \in 1..Len(trace) :
                               ~IsError(trace[i].item) /\ collab[i] = "none") =>
            /\ logged = <<Info(Cardinality({ i \in 1..Len(trace) : trace[i].item.kind = "Ok" }))>>
            /\ WellFramed(input) => logged = <<Info(Len(Frames(input, 0).recs))>>

C10_Witness ==
    /\ Len(trace) = 2
    /\ Skipped(1) /\ collab[1] = "to_canonical_extjson_value"
    /\ trace[2].item.kind = "TooSmallError"
    /\ status = "exit1"
    /\ logged[1] = Info(1)

====
